---- MODULE Spec2Model ----
(***************************************************************************)
(* Model of demo/image_demo.py: one run of main().  Paths are sequences of *)
(* one-character strings, so that the path arithmetic of the script        *)
(* (relpath, replace, basename, join, splitext) is computed character by   *)
(* character.  Scores are tenths (3 is 0.3).                               *)
(***************************************************************************)
EXTENDS Integers, Sequences, FiniteSets, TLC

VARIABLES args, pc, events, raised, scanned, files, is_dir, dataset_classes,
          task_num, completed, i, inferred, result, filename, out_file,
          pred_instances, labelme_calls, vis_calls, printed

vars == <<args, pc, events, raised, scanned, files, is_dir, dataset_classes,
          task_num, completed, i, inferred, result, filename, out_file,
          pred_instances, labelme_calls, vis_calls, printed>>

\* Largest number of image files the enumerated list holds.
MaxFiles == 2

\* Python's None (out_file under --show, class_name when --class-name is absent).
None == <<"<None>">>

SEP == "/"
DOT == "."

dot_json == <<".", "j", "s", "o", "n">>

----------------------------------------------------------------------------
\* Path and string functions the script calls, computed as Python computes them.

\* str.rfind for a single character: the last index holding c, 0 when none.
rfind(p, c) ==
    IF \E k \in 1..Len(p) : p[k] = c
    THEN CHOOSE k \in 1..Len(p) : p[k] = c /\ \A m \in (k+1)..Len(p) : p[m] # c
    ELSE 0

startswith(s, pre) ==
    Len(pre) <= Len(s) /\ SubSeq(s, 1, Len(pre)) = pre

RECURSIVE interleave(_, _)
\* "".join semantics of replacing the empty string: new before every character.
interleave(s, new) ==
    IF s = <<>> THEN <<>> ELSE new \o <<Head(s)>> \o interleave(Tail(s), new)

RECURSIVE replace_nonempty(_, _, _)
replace_nonempty(s, old, new) ==
    IF Len(s) < Len(old) THEN s
    ELSE IF startswith(s, old)
         THEN new \o replace_nonempty(SubSeq(s, Len(old) + 1, Len(s)), old, new)
         ELSE <<Head(s)>> \o replace_nonempty(Tail(s), old, new)

\* str.replace(old, new): every non-overlapping occurrence, left to right; an
\* empty old matches before every character and at the end.
str_replace(s, old, new) ==
    IF old = <<>> THEN interleave(s, new) \o new
    ELSE replace_nonempty(s, old, new)

\* os.path.splitext(p)[-1] (posixpath / genericpath._splitext).
splitext_ext(p) ==
    LET sepIndex == rfind(p, SEP)
        dotIndex == rfind(p, DOT)
    IN IF dotIndex > sepIndex
          /\ \E k \in (sepIndex + 1)..(dotIndex - 1) : p[k] # DOT
       THEN SubSeq(p, dotIndex, Len(p))
       ELSE <<>>

\* os.path.basename(p)
basename(p) == SubSeq(p, rfind(p, SEP) + 1, Len(p))

\* os.path.join(a, b)
join(a, b) ==
    IF b # <<>> /\ Head(b) = SEP THEN b
    ELSE IF a = <<>> \/ a[Len(a)] = SEP THEN a \o b
    ELSE a \o <<SEP>> \o b

RECURSIVE split_sep(_, _)
\* The components of p between separators, empty components dropped; cur is
\* the component being read.
split_sep(p, cur) ==
    IF p = <<>> THEN (IF cur = <<>> THEN <<>> ELSE <<cur>>)
    ELSE IF Head(p) = SEP
         THEN (IF cur = <<>> THEN <<>> ELSE <<cur>>) \o split_sep(Tail(p), <<>>)
         ELSE split_sep(Tail(p), cur \o <<Head(p)>>)

\* The working directory of the process.
cwd == <<"/", "w">>

not_curdir(c) == c # <<".">>

\* os.path.abspath(p), as its list of components ("." components dropped).
abs_list(p) ==
    IF p # <<>> /\ Head(p) = SEP THEN SelectSeq(split_sep(p, <<>>), not_curdir)
    ELSE SelectSeq(split_sep(cwd, <<>>) \o split_sep(p, <<>>), not_curdir)

RECURSIVE commonprefix_len(_, _)
commonprefix_len(a, b) ==
    IF a = <<>> \/ b = <<>> \/ Head(a) # Head(b) THEN 0
    ELSE 1 + commonprefix_len(Tail(a), Tail(b))

RECURSIVE join_list(_)
join_list(l) ==
    IF l = <<>> THEN <<>>
    ELSE IF Len(l) = 1 THEN l[1]
    ELSE l[1] \o <<SEP>> \o join_list(Tail(l))

\* os.path.relpath(path, start)
relpath(path, start) ==
    LET start_list == abs_list(start)
        path_list  == abs_list(path)
        n          == commonprefix_len(start_list, path_list)
        rel_list   == [k \in 1..(Len(start_list) - n) |-> <<".", ".">>]
                      \o SubSeq(path_list, n + 1, Len(path_list))
    IN IF rel_list = <<>> THEN <<".">> ELSE join_list(rel_list)

\* os.path.abspath(p)
abspath(p) == <<SEP>> \o join_list(abs_list(p))

----------------------------------------------------------------------------
\* The inputs of a run.

\* The model's class list, model.dataset_meta['classes'].
ModelClasses == <<"cat", "dog">>

\* Values of --class-name (None when the option is absent).
ClassNameArgs ==
    { None, <<"cat">>, <<"dog", "cat">>, <<"cat", "bird", "fish">>,
      <<"fish", "cat", "bird">> }

\* Values of --score-thr, in tenths (the default is 0.3).
ScoreThrArgs == {3, 5}

\* Values of --out-dir.
OutDirArgs == { <<".", "/", "o">>, <<"o", ".", "j">> }

\* Values of the img argument with what the path is on this machine.
ImgArgs ==
    { [img |-> <<"d">>, kind |-> "dir"],
      [img |-> <<"x", "/", "d", "/">>, kind |-> "dir"],
      [img |-> <<"x", "/", "a", ".", "j">>, kind |-> "file"],
      [img |-> <<"a", ".", "j", ".", "j">>, kind |-> "file"],
      [img |-> <<"h", ":", "/", "u", "/", "a">>, kind |-> "url"],
      [img |-> <<"n">>, kind |-> "none"] }

\* Image files a directory scan can yield, relative to the directory.
RelPaths ==
    { <<"a", ".", "j">>,
      <<"a", "/", "b", ".", "j">>,
      <<"a", "_", "b", ".", "j">>,
      <<"a", ".", "j", "/", "b", ".", "j">> }

\* The lists a recursive directory scan can yield: each file once.
ScanLists ==
    UNION { { s \in [1..n -> RelPaths] :
                \A j, k \in 1..n : j # k => s[j] # s[k] } : n \in 0..MaxFiles }

\* The predictions the detector can return for an image.
Predictions ==
    { {},
      { [score |-> 3, label |-> "cat"], [score |-> 5, label |-> "dog"] },
      { [score |-> 2, label |-> "dog"], [score |-> 6, label |-> "cat"] } }

NoError == [kind |-> "none", got |-> ""]

NoResult == [img_path |-> None, pred_instances |-> {}]

----------------------------------------------------------------------------
\* main()

Called(e) == \E k \in 1..Len(events) : events[k] = e

Init ==
    /\ \E show \in BOOLEAN, to_labelme \in BOOLEAN, deploy \in BOOLEAN,
          class_name \in ClassNameArgs, score_thr \in ScoreThrArgs,
          out_dir \in OutDirArgs, im \in ImgArgs :
          args = [img |-> im.img, kind |-> im.kind, out_dir |-> out_dir,
                  show |-> show, deploy |-> deploy, score_thr |-> score_thr,
                  class_name |-> class_name, to_labelme |-> to_labelme]
    /\ pc = "check_flags"
    /\ events = <<>>
    /\ raised = NoError
    /\ scanned = <<>>
    /\ files = <<>>
    /\ is_dir = FALSE
    /\ dataset_classes = <<>>
    /\ task_num = 0
    /\ completed = 0
    /\ i = 1
    /\ inferred = <<>>
    /\ result = NoResult
    /\ filename = None
    /\ out_file = None
    /\ pred_instances = {}
    /\ labelme_calls = <<>>
    /\ vis_calls = <<>>
    /\ printed = <<>>

\* The flag check with the second flag negated.
flags_conflict_negated == args.to_labelme /\ ~args.show

flags_conflict == args.to_labelme /\ args.show

\* if args.to_labelme and args.show: raise RuntimeError
CheckFlags ==
    /\ pc = "check_flags"
    /\ IF flags_conflict
       THEN /\ raised' = [kind |-> "conflict", got |-> ""]
            /\ pc' = "raised"
       ELSE /\ pc' = "init_detector"
            /\ UNCHANGED raised
    /\ UNCHANGED <<args, events, scanned, files, is_dir, dataset_classes,
                   task_num, completed, i, inferred, result, filename,
                   out_file, pred_instances, labelme_calls, vis_calls, printed>>

\* register_all_modules(); model = init_detector(...)
InitDetector ==
    /\ pc = "init_detector"
    /\ events' = events \o <<"register_all_modules", "init_detector">>
    /\ pc' = IF args.deploy THEN "switch_to_deploy" ELSE "mkdir"
    /\ UNCHANGED <<args, raised, scanned, files, is_dir, dataset_classes,
                   task_num, completed, i, inferred, result, filename,
                   out_file, pred_instances, labelme_calls, vis_calls, printed>>

\* if args.deploy: switch_to_deploy(model)
SwitchToDeploy ==
    /\ pc = "switch_to_deploy"
    /\ events' = Append(events, "switch_to_deploy")
    /\ pc' = "mkdir"
    /\ UNCHANGED <<args, raised, scanned, files, is_dir, dataset_classes,
                   task_num, completed, i, inferred, result, filename,
                   out_file, pred_instances, labelme_calls, vis_calls, printed>>

\* if not args.show: path.mkdir_or_exist(args.out_dir); then the visualizer is built
MkdirAndVisualizer ==
    /\ pc = "mkdir"
    /\ events' = IF ~args.show
                 THEN events \o <<"mkdir_or_exist", "build_visualizer">>
                 ELSE Append(events, "build_visualizer")
    /\ pc' = "get_file_list"
    /\ UNCHANGED <<args, raised, scanned, files, is_dir, dataset_classes,
                   task_num, completed, i, inferred, result, filename,
                   out_file, pred_instances, labelme_calls, vis_calls, printed>>

\* mmyolo.utils.misc.get_file_list: the image files of a directory (each joined
\* to the directory), the downloaded copy of a URL, the single file, or nothing.
get_file_list(img, kind, scan) ==
    IF kind = "dir" THEN [k \in 1..Len(scan) |-> join(img, scan[k])]
    ELSE IF kind = "url" THEN << join(cwd, basename(img)) >>
    ELSE IF kind = "file" THEN << img >>
    ELSE <<>>

\* files, source_type = get_file_list(args.img);
\* dataset_classes = model.dataset_meta.get('classes');
\* to_label_format = LabelmeFormat(classes=dataset_classes)
GetFileList ==
    /\ pc = "get_file_list"
    /\ \E scan \in ScanLists :
          /\ scanned' = IF args.kind = "dir" THEN scan ELSE <<>>
          /\ files' = get_file_list(args.img, args.kind, scanned')
    /\ is_dir' = (args.kind = "dir")
    /\ dataset_classes' = ModelClasses
    /\ events' = events \o <<"get_file_list", "LabelmeFormat">>
    /\ pc' = "check_class_name"
    /\ UNCHANGED <<args, raised, task_num, completed, i, inferred, result,
                   filename, out_file, pred_instances, labelme_calls,
                   vis_calls, printed>>

in_list(x, l) == \E k \in 1..Len(l) : l[k] = x

RECURSIVE last_unknown(_, _)
\* The class-name loop without its raise inside: the last unknown name wins.
last_unknown(names, classes) ==
    IF names = <<>> THEN None
    ELSE IF last_unknown(Tail(names), classes) # None
         THEN last_unknown(Tail(names), classes)
    ELSE IF in_list(Head(names), classes) THEN None
    ELSE <<Head(names)>>

RECURSIVE first_unknown(_, _)
\* The name the class-name loop raises for: the first one not in classes
\* (None when the loop runs to its end).
first_unknown(names, classes) ==
    IF names = <<>> THEN None
    ELSE IF in_list(Head(names), classes) THEN first_unknown(Tail(names), classes)
    ELSE <<Head(names)>>

\* if args.class_name is not None: for class_name in args.class_name: ...
CheckClassName ==
    /\ pc = "check_class_name"
    /\ LET bad == IF args.class_name = None THEN None
                  ELSE first_unknown(args.class_name, dataset_classes)
       IN IF bad # None
          THEN /\ events' = Append(events, "show_data_classes")
               /\ pc' = "raise_class_name"
          ELSE /\ pc' = "progress_bar"
               /\ UNCHANGED events
    /\ UNCHANGED <<args, raised, scanned, files, is_dir, dataset_classes,
                   task_num, completed, i, inferred, result, filename,
                   out_file, pred_instances, labelme_calls, vis_calls, printed>>

\* raise RuntimeError('Expected args.class_name to be one of the list, but got ...')
RaiseClassName ==
    /\ pc = "raise_class_name"
    /\ raised' = [kind |-> "class_name",
                  got |-> first_unknown(args.class_name, dataset_classes)[1]]
    /\ pc' = "raised"
    /\ UNCHANGED <<args, events, scanned, files, is_dir, dataset_classes,
                   task_num, completed, i, inferred, result, filename,
                   out_file, pred_instances, labelme_calls, vis_calls, printed>>

\* progress_bar = ProgressBar(len(files))
NewProgressBar ==
    /\ pc = "progress_bar"
    /\ task_num' = Len(files)
    /\ completed' = 0
    /\ events' = Append(events, "ProgressBar")
    /\ pc' = "loop"
    /\ UNCHANGED <<args, raised, scanned, files, is_dir, dataset_classes, i,
                   inferred, result, filename, out_file, pred_instances,
                   labelme_calls, vis_calls, printed>>

\* for file in files: result = inference_detector(model, file)
Inference ==
    /\ pc = "loop"
    /\ i <= Len(files)
    /\ \E preds \in Predictions :
          result' = [img_path |-> files[i], pred_instances |-> preds]
    /\ inferred' = Append(inferred, files[i])
    /\ pc' = "filename"
    /\ UNCHANGED <<args, events, raised, scanned, files, is_dir,
                   dataset_classes, task_num, completed, i, filename, out_file,
                   pred_instances, labelme_calls, vis_calls, printed>>

\* The filename without the replace of the separators.
filename_unflattened(file) ==
    IF is_dir THEN relpath(file, args.img) ELSE basename(file)

\* filename = relpath(file, args.img).replace('/', '_') if is_dir else basename(file)
filename_of(file) ==
    IF is_dir THEN str_replace(relpath(file, args.img), <<SEP>>, <<"_">>)
    ELSE basename(file)

\* out_file = None if args.show else os.path.join(args.out_dir, filename)
out_file_of(name) ==
    IF args.show THEN None ELSE join(args.out_dir, name)

\* The image is read and converted; filename and out_file are computed.
ComputeFilename ==
    /\ pc = "filename"
    /\ filename' = filename_of(files[i])
    /\ out_file' = out_file_of(filename')
    /\ pc' = "update"
    /\ UNCHANGED <<args, events, raised, scanned, files, is_dir,
                   dataset_classes, task_num, completed, i, inferred, result,
                   pred_instances, labelme_calls, vis_calls, printed>>

\* An update that advances nothing.
update_nothing(n) == n

\* ProgressBar.update(): one more task completed.
update(n) == n + 1

\* progress_bar.update()
ProgressUpdate ==
    /\ pc = "update"
    /\ completed' = update(completed)
    /\ pc' = "threshold"
    /\ UNCHANGED <<args, events, raised, scanned, files, is_dir,
                   dataset_classes, task_num, i, inferred, result, filename,
                   out_file, pred_instances, labelme_calls, vis_calls, printed>>

\* The comparison with >= in place of >.
at_or_above_thr(p, thr) == p.score >= thr

\* result.pred_instances.scores > args.score_thr
above_thr(p, thr) == p.score > thr

\* pred_instances = result.pred_instances[scores > args.score_thr];
\* then the branch on args.to_labelme
Threshold ==
    /\ pc = "threshold"
    /\ pred_instances' =
          { p \in result.pred_instances : above_thr(p, args.score_thr) }
    /\ pc' = IF args.to_labelme THEN "labelme" ELSE "visualize"
    /\ UNCHANGED <<args, events, raised, scanned, files, is_dir,
                   dataset_classes, task_num, completed, i, inferred, result,
                   filename, out_file, labelme_calls, vis_calls, printed>>

\* out_file.replace(os.path.splitext(out_file)[-1], '.json')
json_path(p) == str_replace(p, splitext_ext(p), dot_json)

\* The labelme branch without its continue: control falls through to the visualizer.
fall_through == "visualize"

\* Where control goes after the labelme export: continue.
after_labelme == "loop"

\* to_label_format(pred_instances, result.metainfo, out_file, args.class_name); continue
ToLabelme ==
    /\ pc = "labelme"
    /\ out_file' = json_path(out_file)
    /\ labelme_calls' = Append(labelme_calls,
          [pred_instances |-> pred_instances,
           metainfo |-> [img_path |-> result.img_path],
           out_file |-> out_file',
           classes |-> args.class_name])
    /\ IF after_labelme = "loop"
       THEN /\ i' = i + 1
            /\ pc' = "loop"
       ELSE /\ pc' = after_labelme
            /\ UNCHANGED i
    /\ UNCHANGED <<args, events, raised, scanned, files, is_dir,
                   dataset_classes, task_num, completed, inferred, result,
                   filename, pred_instances, vis_calls, printed>>

\* visualizer.add_datasample(filename, img, data_sample=result, draw_gt=False,
\*     show=args.show, wait_time=0, out_file=out_file, pred_score_thr=args.score_thr)
AddDatasample ==
    /\ pc = "visualize"
    /\ vis_calls' = Append(vis_calls,
          [name |-> filename,
           data_sample |-> result,
           show |-> args.show,
           out_file |-> out_file,
           pred_score_thr |-> args.score_thr])
    /\ i' = i + 1
    /\ pc' = "loop"
    /\ UNCHANGED <<args, events, raised, scanned, files, is_dir,
                   dataset_classes, task_num, completed, inferred, result,
                   filename, out_file, pred_instances, labelme_calls, printed>>

\* The report with the labelme branch missing.
report_saved_only ==
    IF ~args.show /\ ~args.to_labelme
    THEN << [text |-> "Results have been saved at",
             where |-> abspath(args.out_dir)] >>
    ELSE <<>>

\* The messages print_log is called with after the loop.
report_messages ==
    IF ~args.show /\ ~args.to_labelme
    THEN << [text |-> "Results have been saved at",
             where |-> abspath(args.out_dir)] >>
    ELSE IF args.to_labelme
    THEN << [text |-> "Labelme format label files had all been saved in",
             where |-> args.out_dir] >>
    ELSE <<>>

\* The loop is exhausted; the completion message is printed and main() returns.
Report ==
    /\ pc = "loop"
    /\ i > Len(files)
    /\ printed' = printed \o report_messages
    /\ pc' = "done"
    /\ UNCHANGED <<args, events, raised, scanned, files, is_dir,
                   dataset_classes, task_num, completed, i, inferred, result,
                   filename, out_file, pred_instances, labelme_calls, vis_calls>>

Next ==
    \/ CheckFlags
    \/ InitDetector
    \/ SwitchToDeploy
    \/ MkdirAndVisualizer
    \/ GetFileList
    \/ CheckClassName
    \/ RaiseClassName
    \/ NewProgressBar
    \/ Inference
    \/ ComputeFilename
    \/ ProgressUpdate
    \/ Threshold
    \/ ToLabelme
    \/ AddDatasample
    \/ Report

Spec == Init /\ [][Next]_vars

TypeOK ==
    /\ pc \in {"check_flags", "init_detector", "switch_to_deploy", "mkdir",
               "get_file_list", "check_class_name", "raise_class_name",
               "progress_bar", "loop",
               "filename", "update", "threshold", "labelme", "visualize",
               "done", "raised"}
    /\ i \in 1..(MaxFiles + 1)

----------------------------------------------------------------------------
\* Properties of main().

BothFlags == args.to_labelme /\ args.show

HasUnknownClass ==
    /\ args.class_name # None
    /\ \E k \in 1..Len(args.class_name) : ~in_list(args.class_name[k], ModelClasses)

\* The labelme exports and the visualizer calls made for a file.
LabelmeCallsFor(f) ==
    { k \in 1..Len(labelme_calls) : labelme_calls[k].metainfo.img_path = f }

VisCallsFor(f) ==
    { k \in 1..Len(vis_calls) : vis_calls[k].data_sample.img_path = f }

\* An iteration of the loop has just ended.
IterationDone == pc = "loop" /\ i > 1

\* C1: with --show and --to-labelme both set, main() raises the conflict error
\* before the model is loaded, the output directory is created or the file
\* list is enumerated, and no file is ever inferred or output.
C1_ConflictFailsFirst ==
    BothFlags =>
        /\ pc \in {"check_flags", "raised"}
        /\ pc = "raised" => raised.kind = "conflict"
        /\ events = <<>>
        /\ files = <<>>
        /\ inferred = <<>>
        /\ labelme_calls = <<>>
        /\ vis_calls = <<>>

C1_Witness == BothFlags /\ pc = "raised" /\ raised.kind = "conflict"

C3_OneOutputPath ==
    \A k \in 1..Len(files) :
        LET nl == Cardinality(LabelmeCallsFor(files[k]))
            nv == Cardinality(VisCallsFor(files[k]))
        IN /\ args.to_labelme => nv = 0
           /\ ~args.to_labelme => nl = 0
           /\ k < i => nl + nv = 1
           /\ k >= i => nl + nv = 0

C3_Witness ==
    /\ pc = "done"
    /\ args.to_labelme
    /\ Len(files) = 2
    /\ Len(labelme_calls) = 2
    /\ vis_calls = <<>>

\* C4: for a directory input the filename of the file being processed is its
\* path relative to the input directory with every separator replaced by an
\* underscore, so it holds no separator; for any other input it is the part
\* of the file's path after its last separator.
C4_FlattenedFilename ==
    pc \in {"update", "threshold", "labelme", "visualize"} =>
        IF is_dir
        THEN /\ filename = [k \in 1..Len(scanned[i]) |->
                              IF scanned[i][k] = SEP THEN "_" ELSE scanned[i][k]]
             /\ \A k \in 1..Len(filename) : filename[k] # SEP
        ELSE LET f == files[i]
                 n == Len(filename)
             IN /\ n <= Len(f)
                /\ SubSeq(f, Len(f) - n + 1, Len(f)) = filename
                /\ \A k \in 1..n : filename[k] # SEP
                /\ n < Len(f) => f[Len(f) - n] = SEP

C4_Witness ==
    /\ pc = "update"
    /\ is_dir
    /\ args.img = <<"x", "/", "d", "/">>
    /\ scanned[i] = <<"a", ".", "j", "/", "b", ".", "j">>
    /\ filename = <<"a", ".", "j", "_", "b", ".", "j">>

\* C5 as stated: every run that does not raise ends with one completion
\* message giving the output location, in each of the three modes.
C5_AlwaysReports ==
    pc = "done" =>
        /\ Len(printed) = 1
        /\ printed[1].where \in {args.out_dir, abspath(args.out_dir)}

\* C5: a run that does not raise ends with one completion message giving the
\* output location when it saves rendered images (the absolute output
\* directory) or labelme files (the output directory as given); under --show
\* it ends without printing a message.  Nothing is printed before the end.
C5_ReportsUnlessShow ==
    /\ pc # "done" => printed = <<>>
    /\ pc = "done" =>
          /\ raised.kind = "none"
          /\ args.show => printed = <<>>
          /\ (~args.show /\ args.to_labelme) =>
                Len(printed) = 1 /\ printed[1].where = args.out_dir
          /\ (~args.show /\ ~args.to_labelme) =>
                Len(printed) = 1 /\ printed[1].where = abspath(args.out_dir)

C5_Witness ==
    /\ pc = "done"
    /\ ~args.show
    /\ args.to_labelme
    /\ Len(files) >= 1
    /\ Len(printed) = 1

\* The predictions of the current result above the threshold.
AboveThreshold ==
    { p \in result.pred_instances : p.score > args.score_thr }

\* C6 as stated: in both output paths the predictions handed to the output
\* step are exactly those whose score is strictly greater than --score-thr.
C6_FilteredInBothPaths ==
    IterationDone =>
        IF args.to_labelme
        THEN labelme_calls[Len(labelme_calls)].pred_instances = AboveThreshold
        ELSE vis_calls[Len(vis_calls)].data_sample.pred_instances = AboveThreshold

\* C6: the annotation export is handed exactly the predictions whose score is
\* strictly greater than --score-thr; the visualizer is handed the whole
\* result, unfiltered, together with pred_score_thr equal to --score-thr.
C6_FilteredForExport ==
    IterationDone =>
        IF args.to_labelme
        THEN labelme_calls[Len(labelme_calls)].pred_instances = AboveThreshold
        ELSE /\ vis_calls[Len(vis_calls)].data_sample = result
             /\ vis_calls[Len(vis_calls)].pred_score_thr = args.score_thr

C6_Witness ==
    /\ IterationDone
    /\ args.to_labelme
    /\ \E p \in result.pred_instances : p.score = args.score_thr
    /\ \E p \in result.pred_instances : p.score < args.score_thr
    /\ labelme_calls[Len(labelme_calls)].pred_instances = {}

\* C7: with a valid --class-name, the allow-list is passed on to the output
\* step of every processed image, in the annotation export and in the visual
\* rendering alike.
C7_AllowListPassedOn ==
    (args.class_name # None /\ ~HasUnknownClass) =>
        /\ \A k \in 1..Len(labelme_calls) :
              labelme_calls[k].classes = args.class_name
        /\ \A k \in 1..Len(vis_calls) :
              /\ "classes" \in DOMAIN vis_calls[k]
              /\ vis_calls[k].classes = args.class_name

\* What C8 says apart from the progress count: files are inferred in list
\* order, each once; the bar's total is the number of files; the count never
\* exceeds it and equals it when the loop has ended, after len(files) iterations.
ProgressFrame ==
    /\ inferred = SubSeq(files, 1, Len(inferred))
    /\ ~Called("ProgressBar") => inferred = <<>>
    /\ Called("ProgressBar") =>
          /\ task_num = Len(files)
          /\ completed <= task_num
          /\ i <= Len(files) + 1
          /\ Len(inferred) = IF pc \in {"loop", "done"} THEN i - 1 ELSE i
          /\ pc = "done" =>
                /\ completed = task_num
                /\ inferred = files
                /\ i = Len(files) + 1

\* C8 as stated: at every point the progress count equals the number of files
\* whose inference has completed.
C8_ProgressEqualsInferred ==
    /\ ProgressFrame
    /\ Called("ProgressBar") => completed = Len(inferred)

\* C8: files are processed one at a time in list order, each once; the bar is
\* advanced once per file, after its inference and before its output, in both
\* modes; the count equals the number of inferred files except between a
\* file's inference and its update, where it is one less.
C8_ProgressLagsByOne ==
    /\ ProgressFrame
    /\ Called("ProgressBar") =>
          completed = IF pc \in {"filename", "update"}
                      THEN Len(inferred) - 1
                      ELSE Len(inferred)

C8_Witness ==
    /\ pc = "labelme"
    /\ args.to_labelme
    /\ i = 2
    /\ completed = 2
    /\ Len(inferred) = 2

\* The path p with its final extension, if any, replaced by .json.
FinalExtensionReplaced(p) ==
    SubSeq(p, 1, Len(p) - Len(splitext_ext(p))) \o dot_json

\* C9: in --to-labelme mode the annotation path of an image is out_dir joined
\* with the filename, with only the final extension replaced by .json.
C9_OnlyFinalExtensionReplaced ==
    (IterationDone /\ args.to_labelme) =>
        labelme_calls[Len(labelme_calls)].out_file =
            FinalExtensionReplaced(join(args.out_dir, filename))

\* C10: for a directory input written to disk, no two files of the list are
\* given the same output path.
C10_DistinctOutputPaths ==
    (is_dir /\ ~args.show) =>
        /\ \A j, k \in 1..Len(labelme_calls) :
              j # k => labelme_calls[j].out_file # labelme_calls[k].out_file
        /\ \A j, k \in 1..Len(vis_calls) :
              j # k => vis_calls[j].out_file # vis_calls[k].out_file

====
